---- MODULE Spec2Model ----
(***************************************************************************)
(* Model of the discovery-and-extraction pipeline of src/app.py:           *)
(* scrape_places (the orchestrator), search_single_query (the discovery    *)
(* loop) and extract_place (the record assembler).  The rendered page is   *)
(* the environment: every navigation, wait, count and lookup is a          *)
(* nondeterministic choice over the outcomes the page can produce.         *)
(***************************************************************************)
EXTENDS Integers, Sequences, FiniteSets, TLC

\* ---------------------------------------------------------------- bounds
MaxTotal == 2      \* largest `total` (target count) explored
NumUrls == 3       \* number of distinct listing URLs the page can show
MaxLinks == 2      \* largest number of result anchors on a result page
MaxAnchors == 4    \* the same for a discovery call checked on its own
MaxCount == 2      \* largest visible-anchor count the scroll loop reads
MaxRounds == 7     \* scroll rounds explored before the model stops a call

\* ------------------------------------------------------ program constants
PerSearchLimit == 30   \* min(30, total)
max_scrolls == 10
StallLimit == 5        \* scroll_attempts < 5

\* ------------------------------------------------------------ input sets
Queries == {"cafe", "bar"}
Urls == 1..NumUrls
NoHref == 0                          \* get_attribute('href') gave None or ""
Hrefs == Urls \cup {NoHref}
Names == {"A", "B", "C"}
NameTexts == Names \cup {""}         \* what the name strategies can yield
NoPlace == [name |-> "", url |-> 0]  \* no Place assembled in this iteration

\* --------------------------------------------------------------- helpers
Min(a, b) == IF a < b THEN a ELSE b

Range(s) == {s[k] : k \in DOMAIN s}

\* Python s[:n] for n >= 0
Take(s, n) == SubSeq(s, 1, Min(n, Len(s)))

SeqsUpTo(S, n) == UNION {[1..k -> S] : k \in 0..n}

LinkSeqs == SeqsUpTo(Hrefs, MaxLinks)

AnchorSeqs == SeqsUpTo(Hrefs, MaxAnchors)

\* ------------------------------------------------------- Query Expander
search_terms_SuffixOnly(q) ==
    << q \o " center",
       q \o " near me",
       q \o " best",
       q \o " popular",
       q \o " 24 hours",
       q \o " chain",
       q \o " local" >>

search_terms(q) ==
    << q,
       q \o " center",
       q \o " near me",
       q \o " best",
       q \o " popular",
       q \o " 24 hours",
       q \o " chain",
       q \o " local" >>

NumTerms == Len(search_terms(""))

\* ------------------------------------------- Discovery Loop, pure parts
\* max_results as passed by scrape_places
max_results(t) == Min(PerSearchLimit, t)

\* the condition of the while loop
ScrollCond(attempts) == attempts < max_scrolls /\ attempts < StallLimit

ScrollStep_NoReset(last, attempts, current_count, cap) ==
    IF current_count >= cap
    THEN [last_count |-> last, scroll_attempts |-> attempts, brk |-> TRUE]
    ELSE [last_count |-> current_count,
          scroll_attempts |-> IF current_count = last THEN attempts + 1 ELSE attempts,
          brk |-> FALSE]

\* one round of the while loop after current_count was read
ScrollStep(last, attempts, current_count, cap) ==
    IF current_count >= cap
    THEN [last_count |-> last, scroll_attempts |-> attempts, brk |-> TRUE]
    ELSE [last_count |-> current_count,
          scroll_attempts |-> IF current_count = last THEN attempts + 1 ELSE 0,
          brk |-> FALSE]

RECURSIVE UniqueUrlsFrom(_, _)
UniqueUrlsFrom(l, acc) ==
    IF l = << >> THEN acc
    ELSE LET href == Head(l) IN
         UniqueUrlsFrom(Tail(l),
                        IF href # NoHref /\ href \notin Range(acc)
                        THEN Append(acc, href) ELSE acc)

UniqueUrls_KeepRepeats(l) == SelectSeq(l, LAMBDA h : h # NoHref)

\* the loop over the anchors that fills `urls`
UniqueUrls(l) == UniqueUrlsFrom(l, << >>)

SearchReturn_OffByOne(l, cap) == Take(UniqueUrls(l), cap - 1)

\* the value search_single_query returns
SearchReturn(l, cap) == Take(UniqueUrls(l), cap)

\* ------------------------------------------------ Orchestrator, pure parts
EnoughUrls_Never(all, t) == FALSE

\* the early break of the loop over the search terms
EnoughUrls(all, t) == Cardinality(all) >= t

InjectiveSeqs(S, n) ==
    {s \in [1..n -> S] : \A a, b \in 1..n : a # b => s[a] # s[b]}

UrlsLists_NoCap(all, t) == InjectiveSeqs(all, Cardinality(all))

UrlsLists_Repeats(all, t) == [1..Min(t, Cardinality(all)) -> all]

\* list(all_urls)[:total]: a set has no defined order, so any enumeration
UrlsLists(all, t) == InjectiveSeqs(all, Min(t, Cardinality(all)))

PlaceNames(res) == {res[k].name : k \in DOMAIN res}

AddPlace_NoNameCheck(res, place) ==
    IF place.name # "" THEN Append(res, place) ELSE res

\* if place.name and place.name not in [p.name for p in results]: append
AddPlace(res, place) ==
    IF place.name # "" /\ place.name \notin PlaceNames(res)
    THEN Append(res, place) ELSE res

\* ------------------------------------------------------------- session
AExit_Leak(s) == s

\* leaving `async with async_playwright()`: the driver is stopped, which
\* also ends a browser that is still open
AExit(s) ==
    [playwright |-> "stopped",
     browser |-> IF s.browser = "open" THEN "closed" ELSE s.browser,
     browserCloses |-> s.browserCloses + (IF s.browser = "open" THEN 1 ELSE 0)]

ProgressAfter_OfTotal(done, n) == [num |-> done, den |-> n + 1]

\* the fraction passed to progress_bar.progress after the iteration that
\* brought the number of finished iterations to `done`, of n candidates
ProgressAfter(done, n) == [num |-> done, den |-> n]

\* progress_bar.progress(0)
ProgressZero == [num |-> 0, den |-> 1]

\* a Place as the dataclass constructs it, before extract_place fills it
PyNone == << "<None>" >>
NoCount == -1                        \* reviews_count is None
EmptyPlace ==
    [name |-> << >>, address |-> << >>, website |-> << >>,
     phone_number |-> << >>, reviews_count |-> NoCount,
     reviews_average |-> PyNone, store_shopping |-> "No",
     in_store_pickup |-> "No", store_delivery |-> "No",
     place_type |-> << >>, opens_at |-> << >>, introduction |-> << >>,
     url |-> NoHref]

\* ------------------------------------------------------------------ state
VARIABLES
    pc,               \* position in scrape_places
    search_for,       \* the query
    total,            \* the target count
    playwright,       \* "none" | "started" | "stopped"
    browser,          \* "none" | "open" | "closed"
    browserCloses,    \* how many times the browser was closed
    fault,            \* the exception that left scrape_places, or "none"
    termIdx,          \* index of the current search term
    searched,         \* the terms search_single_query was called with
    resultsWait,      \* outcome of the wait for a result anchor in this call
    last_count, scroll_attempts,
    rounds,           \* iterations of the scroll loop in this call
    counts,           \* the counts read by the scroll loop of a traced call
    links,            \* hrefs of the anchors read after scrolling
    urls,             \* the value the last search_single_query returned
    all_urls,
    urls_list,
    i,                \* number of finished iterations of the visit loop
    visited,          \* the URLs page.goto was called with while visiting
    place,            \* the Place extract_place returned in the last iteration
    visitFault,       \* the exception caught in the last iteration, or "none"
    assembled,        \* number of iterations in which extract_place returned
    paced,            \* the pacing delay ran since the last detail navigation
    progress,         \* the last fraction given to the progress bar
    results,
    p,                \* the Place being filled by extract_place
    field,            \* the field extract_place assigned last
    lookups,          \* the page's answers to the lookups made for that field
    reviews_text,     \* the raw review text
    rating_text       \* the raw rating text

vars == << pc, search_for, total, playwright, browser, browserCloses, fault,
           termIdx, searched, resultsWait, last_count, scroll_attempts,
           rounds, counts, links, urls, all_urls, urls_list, i, visited,
           place, visitFault, assembled, paced, progress, results,
           p, field, lookups, reviews_text, rating_text >>

sessionVars == << playwright, browser, browserCloses >>
searchVars == << resultsWait, last_count, scroll_attempts, rounds, counts,
                 links, urls >>
visitVars == << urls_list, i, visited, place, visitFault, assembled, paced,
                progress, results >>
extractVars == << p, field, lookups, reviews_text, rating_text >>

Session == [playwright |-> playwright, browser |-> browser,
            browserCloses |-> browserCloses]

\* the values no specification below starts differently
InitLocals ==
    /\ browserCloses = 0
    /\ fault = "none"
    /\ last_count = 0
    /\ scroll_attempts = 0
    /\ rounds = 0
    /\ counts = << >>
    /\ links = << >>
    /\ urls = << >>
    /\ all_urls = {}
    /\ urls_list = << >>
    /\ i = 0
    /\ visited = << >>
    /\ place = NoPlace
    /\ visitFault = "none"
    /\ assembled = 0
    /\ paced = FALSE
    /\ progress = ProgressZero
    /\ results = << >>
    /\ p = EmptyPlace
    /\ field = "none"
    /\ lookups = << >>
    /\ reviews_text = << >>
    /\ rating_text = << >>

Init ==
    /\ pc = "start"
    /\ search_for \in Queries
    /\ total \in 1..MaxTotal
    /\ playwright = "none"
    /\ browser = "none"
    /\ termIdx = 1
    /\ searched = << >>
    /\ resultsWait = "none"
    /\ InitLocals

\* An exception f leaves scrape_places through the `async with` block while
\* the session is in state s.
Raise(f, s) ==
    /\ pc' = "error"
    /\ fault' = f
    /\ playwright' = AExit(s).playwright
    /\ browser' = AExit(s).browser
    /\ browserCloses' = AExit(s).browserCloses

\* async with async_playwright() as p
EnterPlaywright ==
    /\ pc = "start"
    /\ \/ /\ playwright' = "started"
          /\ pc' = "launch"
          /\ UNCHANGED fault
       \/ /\ pc' = "error"
          /\ fault' = "SessionInitFailure"
          /\ UNCHANGED playwright
    /\ UNCHANGED << search_for, total, browser, browserCloses, termIdx,
                    searched, all_urls >>
    /\ UNCHANGED searchVars
    /\ UNCHANGED visitVars
    /\ UNCHANGED extractVars

\* p.chromium.launch, browser.new_context, context.new_page
LaunchBrowser ==
    /\ pc = "launch"
    /\ \/ /\ browser' = "open"
          /\ pc' = "search"
          /\ UNCHANGED << playwright, browserCloses, fault >>
       \/ \E launched \in BOOLEAN :
             Raise("SessionInitFailure",
                   [Session EXCEPT !.browser = IF launched THEN "open" ELSE "none"])
    /\ UNCHANGED << search_for, total, termIdx, searched, all_urls >>
    /\ UNCHANGED searchVars
    /\ UNCHANGED visitVars
    /\ UNCHANGED extractVars

\* search_single_query up to the Enter key: goto, fill, press
SearchNavigate ==
    /\ pc = "search"
    /\ searched' = Append(searched, search_terms(search_for)[termIdx])
    /\ resultsWait' = "none"
    /\ links' = << >>
    /\ urls' = << >>
    /\ \/ /\ pc' = "wait_results"
          /\ UNCHANGED << fault, playwright, browser, browserCloses >>
       \/ Raise("NavigationTimeout", Session)
    /\ UNCHANGED << search_for, total, termIdx, last_count, scroll_attempts,
                    rounds, counts, all_urls >>
    /\ UNCHANGED visitVars
    /\ UNCHANGED extractVars

\* page.wait_for_selector('a[href*="/maps/place/"]', timeout=10000)
WaitForResults ==
    /\ pc = "wait_results"
    /\ \/ /\ resultsWait' = "ok"
          /\ pc' = "scroll"
          /\ UNCHANGED << fault, playwright, browser, browserCloses >>
       \/ /\ resultsWait' = "timeout"
          /\ Raise("WaitTimeout", Session)
    /\ last_count' = 0
    /\ scroll_attempts' = 0
    /\ rounds' = 0
    /\ UNCHANGED << search_for, total, termIdx, searched, counts, links, urls,
                    all_urls >>
    /\ UNCHANGED visitVars
    /\ UNCHANGED extractVars

\* one iteration of the scroll loop in which the page shows current_count
\* anchors
ScrollBody(current_count) ==
    /\ pc = "scroll"
    /\ rounds < MaxRounds
    /\ LET r == ScrollStep(last_count, scroll_attempts, current_count,
                           max_results(total))
       IN /\ last_count' = r.last_count
          /\ scroll_attempts' = r.scroll_attempts
          /\ pc' = IF r.brk \/ ~ScrollCond(r.scroll_attempts)
                   THEN "collect" ELSE "scroll"
    /\ rounds' = rounds + 1
    /\ UNCHANGED << search_for, total, termIdx, searched, resultsWait, links,
                    urls, all_urls, fault >>
    /\ UNCHANGED sessionVars
    /\ UNCHANGED visitVars
    /\ UNCHANGED extractVars

\* one iteration of the scroll loop
ScrollRound ==
    /\ \E current_count \in 0..MaxCount : ScrollBody(current_count)
    /\ UNCHANGED counts

\* the rest of search_single_query when the anchors read are l, and the body
\* of the loop over the terms that follows its return; the counters of the
\* scroll loop end with the call
CollectUrlsWith(l) ==
    /\ pc = "collect"
    /\ LET found == SearchReturn(l, max_results(total))
           merged == all_urls \cup Range(found)
       IN /\ links' = l
          /\ urls' = found
          /\ all_urls' = merged
          /\ IF EnoughUrls(merged, total) \/ termIdx = NumTerms
             THEN pc' = "list" /\ UNCHANGED termIdx
             ELSE pc' = "search" /\ termIdx' = termIdx + 1
    /\ last_count' = 0
    /\ scroll_attempts' = 0
    /\ rounds' = 0
    /\ counts' = << >>
    /\ UNCHANGED << search_for, total, searched, resultsWait, fault >>
    /\ UNCHANGED sessionVars
    /\ UNCHANGED visitVars
    /\ UNCHANGED extractVars

CollectUrls ==
    /\ pc = "collect"
    /\ \E l \in LinkSeqs : CollectUrlsWith(l)

NextVisit(done) == IF done < Len(urls_list) THEN "goto" ELSE "close"

\* urls_list = ul, one of list(all_urls)[:total], and progress_bar.progress(0);
\* the locals of the last search are dead
BuildVisitListWith(ul) ==
    /\ pc = "list"
    /\ ul \in UrlsLists(all_urls, total)
    /\ urls_list' = ul
    /\ pc' = IF 0 < Len(ul) THEN "goto" ELSE "close"
    /\ i' = 0
    /\ progress' = ProgressZero
    /\ links' = << >>
    /\ urls' = << >>
    /\ UNCHANGED << search_for, total, termIdx, searched, resultsWait,
                    last_count, scroll_attempts, rounds, counts, all_urls,
                    visited, place, visitFault, assembled, paced, results,
                    fault >>
    /\ UNCHANGED sessionVars
    /\ UNCHANGED extractVars

BuildVisitList ==
    /\ pc = "list"
    /\ \E ul \in UrlsLists(all_urls, total) : BuildVisitListWith(ul)

VisitExcept_Raise(f) ==
    /\ visitFault' = f
    /\ place' = NoPlace
    /\ results' = results
    /\ assembled' = assembled
    /\ progress' = progress
    /\ i' = i
    /\ pc' = "error"

\* except Exception as e: logging.warning(...); continue
VisitExcept(f) ==
    /\ visitFault' = f
    /\ place' = NoPlace
    /\ results' = results
    /\ assembled' = assembled
    /\ progress' = progress
    /\ i' = i + 1
    /\ pc' = NextVisit(i + 1)

\* page.goto(url, timeout=15000)
VisitGoto ==
    /\ pc = "goto"
    /\ visited' = Append(visited, urls_list[i + 1])
    /\ paced' = FALSE
    /\ \/ /\ pc' = "extract"
          /\ UNCHANGED << i, place, visitFault, assembled, progress, results >>
       \/ VisitExcept("NavigationTimeout")
    /\ UNCHANGED << search_for, total, termIdx, searched, all_urls, urls_list,
                    fault >>
    /\ UNCHANGED sessionVars
    /\ UNCHANGED searchVars
    /\ UNCHANGED extractVars

\* extract_place returns a Place with this name and url; then the append
\* guarded by the name test, the progress report and the pacing delay
VisitAssembled(name, resolved) ==
    LET pl == [name |-> name, url |-> resolved]
    IN /\ place' = pl
       /\ results' = AddPlace(results, pl)
       /\ visitFault' = "none"
       /\ assembled' = assembled + 1
       /\ progress' = ProgressAfter(i + 1, Len(urls_list))
       /\ paced' = TRUE
       /\ i' = i + 1
       /\ pc' = NextVisit(i + 1)

\* the rest of an iteration of the visit loop after page.goto returned
VisitExtract ==
    /\ pc = "extract"
    /\ \/ VisitExcept("PageNotReady") /\ UNCHANGED paced
       \/ \E name \in NameTexts, resolved \in Urls : VisitAssembled(name, resolved)
    /\ UNCHANGED << search_for, total, termIdx, searched, all_urls, urls_list,
                    visited, fault >>
    /\ UNCHANGED sessionVars
    /\ UNCHANGED searchVars
    /\ UNCHANGED extractVars

\* await browser.close()
CloseBrowser ==
    /\ pc = "close"
    /\ browser' = "closed"
    /\ browserCloses' = browserCloses + 1
    /\ pc' = "exit"
    /\ UNCHANGED << search_for, total, playwright, fault, termIdx, searched,
                    all_urls >>
    /\ UNCHANGED searchVars
    /\ UNCHANGED visitVars
    /\ UNCHANGED extractVars

\* the end of the `async with` block, then return results
ExitPlaywright ==
    /\ pc = "exit"
    /\ playwright' = AExit(Session).playwright
    /\ browser' = AExit(Session).browser
    /\ browserCloses' = AExit(Session).browserCloses
    /\ pc' = "done"
    /\ UNCHANGED << search_for, total, fault, termIdx, searched, all_urls >>
    /\ UNCHANGED searchVars
    /\ UNCHANGED visitVars
    /\ UNCHANGED extractVars

Next ==
    \/ EnterPlaywright
    \/ LaunchBrowser
    \/ SearchNavigate
    \/ WaitForResults
    \/ ScrollRound
    \/ CollectUrls
    \/ BuildVisitList
    \/ VisitGoto
    \/ VisitExtract
    \/ CloseBrowser
    \/ ExitPlaywright

Spec == Init /\ [][Next]_vars

\* --------------------------------------- a discovery call checked on its own
\* the state of a run in which the first search has finished scrolling
InitSearch ==
    /\ pc = "collect"
    /\ search_for \in Queries
    /\ total \in 1..MaxTotal
    /\ playwright = "started"
    /\ browser = "open"
    /\ termIdx = 1
    /\ searched = << search_terms(search_for)[1] >>
    /\ resultsWait = "ok"
    /\ InitLocals

\* the anchors are read and search_single_query computes its return value
SearchCollect ==
    /\ pc = "collect"
    /\ \E l \in AnchorSeqs :
          /\ links' = l
          /\ urls' = SearchReturn(l, max_results(total))
    /\ pc' = "returned"
    /\ UNCHANGED << search_for, total, fault, termIdx, searched,
                    resultsWait, last_count, scroll_attempts, rounds, counts,
                    all_urls >>
    /\ UNCHANGED sessionVars
    /\ UNCHANGED visitVars
    /\ UNCHANGED extractVars

SpecSearch == InitSearch /\ [][SearchCollect]_vars

\* ------------------------------------------- a scroll loop checked on its own
\* the state of a run in which the first search has seen a result anchor
InitScroll ==
    /\ pc = "scroll"
    /\ search_for \in Queries
    /\ total \in 1..MaxTotal
    /\ playwright = "started"
    /\ browser = "open"
    /\ termIdx = 1
    /\ searched = << search_terms(search_for)[1] >>
    /\ resultsWait = "ok"
    /\ InitLocals

\* one iteration of the scroll loop, the count it read being recorded
ScrollTraced ==
    \E current_count \in 0..MaxCount :
        /\ ScrollBody(current_count)
        /\ counts' = Append(counts, current_count)

SpecScroll == InitScroll /\ [][ScrollTraced]_vars

\* ------------------------------------------------ Field Extractor, pure parts
\* Texts are sequences of one-character strings; "" is << >>.
MaxTextLen == 2

IsSpace(c) == c \in {" "}

RECURSIVE LStrip(_)
LStrip(t) == IF t # << >> /\ IsSpace(Head(t)) THEN LStrip(Tail(t)) ELSE t

RECURSIVE RStrip(_)
RStrip(t) ==
    IF t # << >> /\ IsSpace(t[Len(t)]) THEN RStrip(SubSeq(t, 1, Len(t) - 1)) ELSE t

\* str.strip()
Strip(t) == RStrip(LStrip(t))

\* Python's `not v` for a value that is a str or None
Falsy(v) == v = << >> \/ v = PyNone

\* What the page answers to a lookup: the locator raised, matched nothing, or
\* matched an element whose inner text or attribute has the given value.
LookupsOf(via, values) ==
    {[via |-> via, kind |-> k, value |-> << >>] : k \in {"fault", "absent"}}
        \cup {[via |-> via, kind |-> "present", value |-> v] : v \in values}

\* extract_text on a page that answers o
extract_text(o) == IF o.kind = "present" THEN Strip(o.value) ELSE << >>

\* extract_attribute on a page that answers o: get_attribute gives None for
\* an attribute the element does not have
extract_attribute(o) == IF o.kind = "present" THEN o.value ELSE << >>

Digits == << "0", "1", "2", "3", "4", "5", "6", "7", "8", "9" >>

IsDigit(c) == \E k \in DOMAIN Digits : Digits[k] = c

DigitVal(c) == (CHOOSE k \in DOMAIN Digits : Digits[k] = c) - 1

RECURSIVE FindAllFrom(_, _, _)
FindAllFrom(t, cur, acc) ==
    LET closed == IF cur # << >> THEN Append(acc, cur) ELSE acc IN
    IF t = << >> THEN closed
    ELSE IF IsDigit(Head(t)) THEN FindAllFrom(Tail(t), Append(cur, Head(t)), acc)
    ELSE FindAllFrom(Tail(t), << >>, closed)

\* re.findall(r'\d+', t)
FindAllNumbers(t) == FindAllFrom(t, << >>, << >>)

RECURSIVE ToInt(_)
\* int() of a string of digits
ToInt(d) ==
    IF d = << >> THEN 0
    ELSE 10 * ToInt(SubSeq(d, 1, Len(d) - 1)) + DigitVal(d[Len(d)])

\* the value of p.reviews_count after the block that parses reviews_text
ParseReviewsCount(t) ==
    IF t = << >> THEN NoCount
    ELSE LET numbers == FindAllNumbers(t) IN
         IF Len(numbers) > 0 THEN ToInt(numbers[Len(numbers)]) ELSE NoCount

\* str.replace(',', '.')
ReplaceComma(t) == [k \in DOMAIN t |-> IF t[k] = "," THEN "." ELSE t[k]]

\* whether float() accepts t, for texts made of digits, "." and other
\* characters that are no part of a number
IsDecimal(t) ==
    /\ \A k \in DOMAIN t : IsDigit(t[k]) \/ t[k] = "."
    /\ \E k \in DOMAIN t : IsDigit(t[k])
    /\ Cardinality({k \in DOMAIN t : t[k] = "."}) <= 1

\* the value of p.reviews_average after the block that parses rating_text; the
\* float is kept as its decimal numeral
ParseReviewsAverage(t) ==
    IF t = << >> THEN PyNone
    ELSE IF IsDecimal(ReplaceComma(t)) THEN ReplaceComma(t) ELSE PyNone

\* ------------------------------------------------------- pages extract_place
\* is run on
Texts == SeqsUpTo({" ", "a"}, MaxTextLen)
TextLookups == LookupsOf("text", Texts)
HrefLookups == LookupsOf("attribute", {PyNone, << >>, << "h" >>})

ReviewSample == << "4", ".", "5", "(", "1", ",", "2", "3", "4", ")" >>
NoReviewsSample == << "N", "o", " ", "r", "e", "v", "i", "e", "w", "s" >>
ReviewTexts ==
    {ReviewSample, NoReviewsSample} \cup SeqsUpTo({"1", "2", ",", "x"}, MaxTextLen)
ReviewLookups == LookupsOf("text", ReviewTexts)

RatingTexts ==
    { << "4", ",", "5" >>, << "N", "/", "A" >>, << "4", ".", "5" >>,
      << "4" >>, << "4", ",", ",", "5" >> }
RatingLookups == LookupsOf("text", RatingTexts)

\* ------------------------------------------------- extract_place on its own
InitExtract ==
    /\ pc = "x_wait"
    /\ search_for \in Queries
    /\ total \in 1..MaxTotal
    /\ playwright = "started"
    /\ browser = "open"
    /\ termIdx = 1
    /\ searched = << search_terms(search_for)[1] >>
    /\ resultsWait = "ok"
    /\ InitLocals

ExtractFrame ==
    /\ UNCHANGED << search_for, total, fault, termIdx, searched, all_urls >>
    /\ UNCHANGED sessionVars
    /\ UNCHANGED searchVars
    /\ UNCHANGED visitVars

\* p = Place(); await page.wait_for_selector('h1', timeout=10000)
ExtractWait ==
    /\ pc = "x_wait"
    /\ p' = EmptyPlace
    /\ pc' \in {"x_name", "x_raised"}
    /\ UNCHANGED << field, lookups, reviews_text, rating_text >>
    /\ ExtractFrame

\* p.f = await s1(page, ...); if not p.f: p.f = await s2(page, ...), on a page
\* that answers o1 to the first lookup and o2 to the second
ExtractChain(f, s1(_), o1, s2(_), o2, next) ==
    LET first == s1(o1) IN
    /\ field' = f
    /\ p' = [p EXCEPT ![f] = IF Falsy(first) THEN s2(o2) ELSE first]
    /\ lookups' = IF Falsy(first) THEN << o1, o2 >> ELSE << o1 >>
    /\ pc' = next
    /\ UNCHANGED << reviews_text, rating_text >>
    /\ ExtractFrame

ExtractName ==
    /\ pc = "x_name"
    /\ \E o1, o2 \in TextLookups :
          ExtractChain("name", extract_text, o1, extract_text, o2, "x_address")

ExtractAddress ==
    /\ pc = "x_address"
    /\ \E o1, o2 \in TextLookups :
          ExtractChain("address", extract_text, o1, extract_text, o2, "x_website")

ExtractWebsite ==
    /\ pc = "x_website"
    /\ \E o1 \in TextLookups, o2 \in HrefLookups :
          ExtractChain("website", extract_text, o1, extract_attribute, o2, "x_phone")

ExtractPhone ==
    /\ pc = "x_phone"
    /\ \E o1, o2 \in TextLookups :
          ExtractChain("phone_number", extract_text, o1, extract_text, o2, "x_type")

ExtractPlaceType ==
    /\ pc = "x_type"
    /\ \E o1, o2 \in TextLookups :
          ExtractChain("place_type", extract_text, o1, extract_text, o2, "x_opens")

\* p.opens_at = await extract_text(page, ...)
ExtractOpensAt ==
    /\ pc = "x_opens"
    /\ \E o \in TextLookups :
          /\ field' = "opens_at"
          /\ p' = [p EXCEPT !.opens_at = extract_text(o)]
          /\ lookups' = << o >>
    /\ pc' = "x_reviews"
    /\ UNCHANGED << reviews_text, rating_text >>
    /\ ExtractFrame

\* reviews_text = await extract_text(page, ...) and the parse that follows
ExtractReviews ==
    /\ pc = "x_reviews"
    /\ \E o \in ReviewLookups :
          /\ reviews_text' = extract_text(o)
          /\ p' = [p EXCEPT !.reviews_count = ParseReviewsCount(extract_text(o))]
          /\ lookups' = << o >>
    /\ field' = "reviews_count"
    /\ pc' = "x_rating"
    /\ UNCHANGED rating_text
    /\ ExtractFrame

\* rating_text = await extract_text(page, ...) and the parse that follows
ExtractRating ==
    /\ pc = "x_rating"
    /\ \E o \in RatingLookups :
          /\ rating_text' = extract_text(o)
          /\ p' = [p EXCEPT !.reviews_average = ParseReviewsAverage(extract_text(o))]
          /\ lookups' = << o >>
    /\ field' = "reviews_average"
    /\ pc' = "x_url"
    /\ UNCHANGED reviews_text
    /\ ExtractFrame

\* p.url = page.url; return p
ExtractReturn ==
    /\ pc = "x_url"
    /\ \E resolved \in Urls : p' = [p EXCEPT !.url = resolved]
    /\ field' = "url"
    /\ lookups' = << >>
    /\ pc' = "x_returned"
    /\ UNCHANGED << reviews_text, rating_text >>
    /\ ExtractFrame

NextExtract ==
    \/ ExtractWait
    \/ ExtractName
    \/ ExtractAddress
    \/ ExtractWebsite
    \/ ExtractPhone
    \/ ExtractPlaceType
    \/ ExtractOpensAt
    \/ ExtractReviews
    \/ ExtractRating
    \/ ExtractReturn

SpecExtract == InitExtract /\ [][NextExtract]_vars

\* ------------------------------------- a run against a page that never fails
E2EAnchors == 12   \* anchors on every result page
E2ETotal == 10     \* the target count of the run

\* the result page: E2EAnchors anchors with distinct URLs
E2ELinks == [k \in 1..E2EAnchors |-> k]

\* the heading of the detail page of URL u: non-empty, distinct for each URL
E2EName(u) == "place " \o ToString(u)

RECURSIVE SetToSeq(_)
SetToSeq(S) ==
    IF S = {} THEN << >>
    ELSE LET m == CHOOSE x \in S : \A y \in S : x <= y
         IN << m >> \o SetToSeq(S \ {m})

Rotate(s, k) == [j \in 1..Len(s) |-> s[((j - 1 + k) % Len(s)) + 1]]

\* some of the orders list(all_urls) can have, cut to t entries
SampleOrders(all, t) ==
    IF all = {} THEN {<< >>}
    ELSE {Take(Rotate(SetToSeq(all), k), t) : k \in 0..(Cardinality(all) - 1)}

InitE2E ==
    /\ pc = "start"
    /\ search_for \in Queries
    /\ total = E2ETotal
    /\ playwright = "none"
    /\ browser = "none"
    /\ termIdx = 1
    /\ searched = << >>
    /\ resultsWait = "none"
    /\ InitLocals

\* the session starts
E2EStart == (EnterPlaywright \/ LaunchBrowser) /\ pc' # "error"

\* navigation and the wait for the result anchors succeed
E2ESearch == (SearchNavigate \/ WaitForResults) /\ pc' # "error"

\* every round shows all the anchors
E2EScroll == ScrollBody(E2EAnchors) /\ UNCHANGED counts

E2ECollect == CollectUrlsWith(E2ELinks)

E2EBuildVisitList ==
    \E ul \in SampleOrders(all_urls, total) : BuildVisitListWith(ul)

\* page.goto succeeds
E2EGoto == VisitGoto /\ pc' = "extract"

\* the heading is there and the page did not redirect
E2EExtract ==
    /\ pc = "extract"
    /\ VisitAssembled(E2EName(urls_list[i + 1]), urls_list[i + 1])
    /\ UNCHANGED << search_for, total, termIdx, searched, all_urls, urls_list,
                    visited, fault >>
    /\ UNCHANGED sessionVars
    /\ UNCHANGED searchVars
    /\ UNCHANGED extractVars

E2EFinish == CloseBrowser \/ ExitPlaywright

NextE2E ==
    \/ E2EStart
    \/ E2ESearch
    \/ E2EScroll
    \/ E2ECollect
    \/ E2EBuildVisitList
    \/ E2EGoto
    \/ E2EExtract
    \/ E2EFinish

SpecE2E == InitE2E /\ [][NextE2E]_vars

\* ------------------------------------------------------------------ claims
DiscoveryPcs == {"search", "wait_results", "scroll", "collect"}
VisitPcs == {"goto", "extract"}
TerminalPcs == {"done", "error"}

\* C1: when the bounded wait for a result anchor times out, the call returns
\* an empty candidate sequence instead of failing: the run is not in error,
\* no exception left scrape_places, and the variant contributed nothing.
C1_TimeoutReturnsEmpty ==
    resultsWait = "timeout" =>
        /\ pc # "error"
        /\ fault = "none"
        /\ urls = << >>

\* C2: a run ends in a fatal error only when the browsing session could not
\* be initialized; no fault raised after the session started ends the run.
C2_OnlySessionInitIsFatal ==
    pc = "error" => fault = "SessionInitFailure"

\* a step of the visit loop in which page.goto or the wait for the heading
\* raised
VisitFaultStep ==
    \/ pc = "goto" /\ pc' # "extract"
    \/ pc = "extract" /\ visitFault' # "none"

\* C3: a navigation fault or a timed-out heading wait on one candidate is
\* skipped: the run is not aborted, no Place is added, the results so far are
\* unchanged and the loop goes on with the next candidate; so every candidate
\* of the visit list is navigated to, results only grow in an iteration where
\* extract_place returned, and a run where it never returned ends with zero
\* Places.
C3_VisitFaultSkipped ==
    /\ [][VisitFaultStep =>
            /\ results' = results
            /\ i' = i + 1
            /\ pc' = (IF i + 1 < Len(urls_list) THEN "goto" ELSE "close")
            /\ fault' = "none"]_vars
    /\ [](pc = "done" => visited = urls_list)
    /\ [](Len(results) <= assembled)
    /\ [](pc = "done" /\ assembled = 0 => results = << >>)

\* C3 witness: a finished run over two candidates where the last one was
\* skipped after a timed-out heading wait and an earlier Place was kept.
C3_Witness ==
    /\ pc = "done"
    /\ Len(visited) = 2
    /\ visitFault = "PageNotReady"
    /\ assembled >= 1
    /\ Len(results) >= 1

\* C4: one call of search_single_query performs at most 5 scroll rounds,
\* whatever counts the page reports.
C4_AtMostFiveRounds == rounds <= StallLimit

FirstIdx(l, h) == CHOOSE j \in DOMAIN l : l[j] = h /\ \A k \in 1..(j - 1) : l[k] # h

\* C5: the sequence a discovery call returns holds the first max_results
\* distinct anchor URLs in first-encounter order: at most max_results entries,
\* no URL twice, only URLs of anchors (never a missing href), ordered by first
\* occurrence among the anchors, and a URL of an anchor is left out only when
\* the cap is reached and it was first seen after every returned URL.
C5_FirstDistinctInOrder ==
    LET cap == Min(PerSearchLimit, total) IN
    /\ Len(urls) <= cap
    /\ \A a, b \in DOMAIN urls : a # b => urls[a] # urls[b]
    /\ \A a \in DOMAIN urls : urls[a] # NoHref /\ urls[a] \in Range(links)
    /\ \A a, b \in DOMAIN urls :
          a < b => FirstIdx(links, urls[a]) < FirstIdx(links, urls[b])
    /\ \A h \in Range(links) \ (Range(urls) \cup {NoHref}) :
          /\ Len(urls) = cap
          /\ \A a \in DOMAIN urls : FirstIdx(links, urls[a]) < FirstIdx(links, h)

\* C5 witness: a call whose anchors held a missing href, a repeated URL and
\* more distinct URLs than the cap.
C5_Witness ==
    /\ NoHref \in Range(links)
    /\ \E a, b \in DOMAIN links : a < b /\ links[a] = links[b] /\ links[a] # NoHref
    /\ Range(links) \ (Range(urls) \cup {NoHref}) # {}
    /\ urls # << >>

\* C6: every Place of the result sequence has a non-empty name and no two
\* Places share a name; a candidate that yields a name already present is
\* dropped whatever its URL, and a Place once retained stays where it is.
C6_NamesUniqueFirstKept ==
    /\ [](\A a \in DOMAIN results : results[a].name # "")
    /\ [](\A a, b \in DOMAIN results : a # b => results[a].name # results[b].name)
    /\ [][pc = "extract" /\ visitFault' = "none"
            /\ place'.name \in PlaceNames(results) => results' = results]_vars
    /\ [][\A k \in DOMAIN results :
            k \in DOMAIN results' /\ results'[k] = results[k]]_vars

\* C6 witness: a finished run whose last candidate yielded the name of the
\* retained Place under another URL and was dropped.
C6_Witness ==
    /\ pc = "done"
    /\ assembled >= 2
    /\ Len(results) = 1
    /\ visitFault = "none"
    /\ place.name = results[1].name
    /\ place.url # results[1].url

\* C7: no two Places of the final result sequence have the same url (the
\* page's resolved URL at extraction time).
C7_SourceUrlUnique ==
    pc = "done" =>
        \A a, b \in DOMAIN results : a # b => results[a].url # results[b].url

\* C8: on every exit path the session is released exactly once: at the end of
\* a run nothing is left open, a session that was started is stopped and its
\* browser closed, and the browser is never closed twice.
C8_SessionReleasedOnce ==
    /\ browserCloses <= 1
    /\ (browser = "closed") <=> (browserCloses = 1)
    /\ pc \in TerminalPcs =>
          /\ playwright # "started"
          /\ browser # "open"
          /\ fault # "SessionInitFailure" =>
                playwright = "stopped" /\ browser = "closed"
    /\ pc \notin TerminalPcs \cup {"start"} => playwright = "started"

\* C8 witness: a run ended by a fault raised during discovery, with the
\* browser closed.
C8_Witness ==
    /\ pc = "error"
    /\ fault = "WaitTimeout"
    /\ playwright = "stopped"
    /\ browser = "closed"

\* C9: the variants are searched in expansion order, a variant is searched
\* only while the run-wide candidate set is below the target, and none is
\* searched once the set has reached the target.
C9_StopOnceEnough ==
    /\ [](searched = SubSeq(search_terms(search_for), 1, Len(searched)))
    /\ [](pc \in DiscoveryPcs => Cardinality(all_urls) < total)
    /\ [][searched' # searched =>
            /\ Cardinality(all_urls) < total
            /\ searched' = Append(searched,
                                  search_terms(search_for)[Len(searched) + 1])]_vars
    /\ [][Cardinality(all_urls) >= total => searched' = searched]_vars

\* C9 witness: a finished run that stopped searching after the second of the
\* eight variants because the target was reached.
C9_Witness ==
    /\ pc = "done"
    /\ Len(searched) = 2
    /\ Cardinality(all_urls) >= total

\* C10: the result sequence never has more than `total` Places and at most
\* `total` candidates are visited, also when discovery collected more.
C10_AtMostTotal ==
    /\ Len(results) <= total
    /\ Len(visited) <= total
    /\ Len(urls_list) <= total

\* C10 witness: a finished run in which discovery collected more than
\* `total` URLs, `total` of them were visited and each gave a Place.
C10_Witness ==
    /\ pc = "done"
    /\ Cardinality(all_urls) > total
    /\ Len(visited) = total
    /\ Len(results) = total

\* C11: the review count is the last numeric token of the raw review text:
\* "4.5(1,234)" gives 1234, and a text without digits ("No reviews") gives an
\* absent count.
C11_ReviewsCountLastToken ==
    field = "reviews_count" =>
        /\ reviews_text = ReviewSample => p.reviews_count = 1234
        /\ reviews_text = NoReviewsSample => p.reviews_count = NoCount

StringFields ==
    {"name", "address", "website", "phone_number", "place_type", "opens_at",
     "introduction"}

\* C12: in the Place extract_place returns, no field with a documented
\* default is None: every string field is a string, possibly empty.
C12_NoNullStringField ==
    pc = "x_returned" => \A f \in StringFields : p[f] # PyNone

ChainFields == {"name", "address", "website", "phone_number", "place_type"}

\* what a strategy yields: the stripped text or the attribute value of the
\* element it matched, nothing when it matched nothing, raised or found no
\* value
Yield(o) ==
    IF o.kind # "present" \/ o.value = PyNone THEN << >>
    ELSE IF o.via = "text" THEN Strip(o.value) ELSE o.value

\* C16: for a field with two strategies, the second is tried only when the
\* first yielded nothing, the field is the first non-empty yield, a strategy
\* that raised counts as nothing, and when both yield nothing the field is
\* the empty string and extract_place goes on.
C16_FallbackChain ==
    field \in ChainFields =>
        LET y == [k \in DOMAIN lookups |-> Yield(lookups[k])] IN
        /\ pc # "x_raised"
        /\ Len(lookups) \in {1, 2}
        /\ Len(lookups) = 2 <=> y[1] = << >>
        /\ y[1] # << >> => p[field] = y[1]
        /\ y[1] = << >> /\ y[2] # << >> => p[field] = y[2]
        /\ y[1] = << >> /\ y[2] = << >> => p[field] = << >>

\* C13: a run with target 10 against result pages that always show the same
\* 12 anchors with distinct URLs and detail pages with distinct headings ends
\* with exactly 10 Places, pairwise distinct, each with a non-empty name and a
\* non-empty url.
C13_EndToEndTen ==
    /\ pc # "error"
    /\ pc = "done" =>
          /\ Len(results) = E2ETotal
          /\ \A a, b \in DOMAIN results : a # b => results[a] # results[b]
          /\ \A a \in DOMAIN results :
                results[a].name # "" /\ results[a].url # NoHref

\* C13 witness: the run has finished after visiting 10 of the 12 candidates.
C13_Witness ==
    /\ pc = "done"
    /\ total = E2ETotal
    /\ Len(visited) = E2ETotal
    /\ Len(results) = E2ETotal

BroadeningSuffixes ==
    {"near me", "popular", "24 hours", "chain", "local", "center", "best"}

\* C14: for every query the expansion has 8 variants, starts with the query
\* itself, and every later variant is the query followed by one of the fixed
\* broadening suffixes, each suffix being used once; the terms searched in a
\* run are of that form.
C14_ExpansionShape ==
    /\ \A q \in Queries :
          LET t == search_terms(q) IN
          /\ Len(t) = 8
          /\ t[1] = q
          /\ {t[k] : k \in 2..Len(t)} = {q \o " " \o x : x \in BroadeningSuffixes}
    /\ Len(searched) <= 8
    /\ \A k \in DOMAIN searched :
          IF k = 1 THEN searched[k] = search_for
          ELSE \E x \in BroadeningSuffixes : searched[k] = search_for \o " " \o x

\* C14 witness: a finished run that searched all the variants of its query.
C14_Witness ==
    /\ pc = "done"
    /\ Len(searched) = 8
    /\ searched[1] = search_for

\* the count of the round before the next one; 0 before the first round
PrevCount == IF counts = << >> THEN 0 ELSE counts[Len(counts)]

\* the loop has ended without the count reaching the cap
StoppedForStall ==
    /\ pc = "collect"
    /\ counts # << >>
    /\ counts[Len(counts)] < Min(PerSearchLimit, total)

\* C15: in each round a count at or above the cap stops the loop at once, a
\* count equal to the previous one adds one to the stall counter and a
\* different count sets it to zero, and the loop stops for stalling exactly
\* when the counter reaches 5; so when it has stopped for stalling, the last
\* 5 rounds all read the same count.
C15_StallCounting ==
    /\ [][counts' # counts =>
            LET c == counts'[Len(counts')]
                cap == Min(PerSearchLimit, total)
            IN /\ c >= cap => pc' = "collect"
               /\ c < cap /\ c = PrevCount => scroll_attempts' = scroll_attempts + 1
               /\ c < cap /\ c # PrevCount => scroll_attempts' = 0
               /\ c < cap => (pc' = "collect" <=> scroll_attempts' = 5)]_vars
    /\ [](StoppedForStall =>
            /\ Len(counts) >= 5
            /\ \A k \in (Len(counts) - 4)..Len(counts) :
                  counts[k] = counts[Len(counts)])

\* C15 witness: the loop stopped for stalling in its seventh round: the first
\* round read the same count as before, the second a different one, and the
\* five after it that one again.
C15_Witness ==
    /\ StoppedForStall
    /\ Len(counts) = 7
    /\ counts[1] = 0
    /\ counts[2] # 0

\* C17: between the navigation to a candidate and the navigation to the next
\* one the pacing delay has run, whatever became of the earlier visit.
C17_PacedBetweenVisits ==
    pc = "goto" /\ i > 0 => paced

\* C18: the phases are ordered and a candidate is visited at most once: once
\* a detail page was visited no variant is searched and the candidate set is
\* fixed, every visited URL is in the set the discovery calls returned, no URL
\* is navigated to twice, and the result sequence changes only by one Place
\* being appended in an iteration of the visit loop.
C18_PhasesOrderedVisitOnce ==
    /\ [](visited # << >> => pc \in VisitPcs \cup {"close", "exit", "done"})
    /\ [][(pc \in VisitPcs \cup {"close", "exit", "done"}) =>
            (searched' = searched /\ all_urls' = all_urls /\ urls_list' = urls_list)]_vars
    /\ [](Range(visited) \subseteq all_urls)
    /\ [](visited = SubSeq(urls_list, 1, Len(visited)))
    /\ [](\A a, b \in DOMAIN visited : a # b => visited[a] # visited[b])
    /\ [][results' # results =>
            /\ pc = "extract"
            /\ Len(results') = Len(results) + 1
            /\ SubSeq(results', 1, Len(results)) = results]_vars

\* C18 witness: a finished run that searched several variants, visited two
\* candidates and kept a Place for each.
C18_Witness ==
    /\ pc = "done"
    /\ Len(searched) >= 2
    /\ Len(visited) = 2
    /\ Len(results) = 2

\* a / b <= c / d for fractions with positive denominators
FracLeq(x, y) == x.num * y.den <= y.num * x.den

IsOne(x) == x.num = x.den

\* C19: the fraction given to the progress bar never decreases and stays in
\* [0, 1]; during the visit loop it is given only at the end of an iteration
\* in which extract_place returned; so when the loop is over it is 1 exactly
\* when the last candidate of the visit list was assembled without fault.
C19_ProgressMonotone ==
    /\ [](progress.den > 0 /\ 0 <= progress.num /\ progress.num <= progress.den)
    /\ [][FracLeq(progress, progress')]_vars
    /\ [][progress' # progress =>
            /\ pc = "extract"
            /\ visitFault' = "none"
            /\ assembled' = assembled + 1]_vars
    /\ [](pc \in {"close", "exit", "done"} /\ urls_list # << >> =>
            (IsOne(progress) <=> visitFault = "none"))
    /\ [](IsOne(progress) => pc \in {"close", "exit", "done"})

\* C19 witness: a finished run over two candidates in which the first was
\* skipped for a fault and the last one was assembled, so the bar went from 0
\* to 1.
C19_Witness ==
    /\ pc = "done"
    /\ Len(visited) = 2
    /\ assembled = 1
    /\ visitFault = "none"
    /\ IsOne(progress)

====
